---- MODULE Spec2Model ----
(***************************************************************************)
(* A model of vezlo/ai-validator: the validation orchestrator              *)
(* (AIValidator), the confidence fusion engine (ConfidenceScorer), the     *)
(* context relevance validator (ContextValidator) and the semantic grader  *)
(* (LLMJudge).                                                             *)
(*                                                                         *)
(* Numbers.  The program computes with IEEE doubles; the model computes    *)
(* with exact rationals [n |-> numerator, d |-> denominator > 0] kept in   *)
(* lowest terms, so that equal values are equal records.  Math.round is    *)
(* round-half-up, as in the code.  The weighted sum of the confidence      *)
(* score is the one value whose double differs from the exact value where  *)
(* it matters: when the exact sum lies on a boundary (half a hundredth for *)
(* the rounding, 0.8 or 0.5 for the level) the double lies just below or   *)
(* just above it (0.145 is computed as 0.14499999999999996), so the side   *)
(* it falls on is an input of the computation, err in DoubleErrors.        *)
(*                                                                         *)
(* Text.  A string is a sequence of one-character strings.  A source's     *)
(* content is its text followed by `pad` full stops, so that the content   *)
(* lengths the source-quality heuristic tests (100, 500) are reached       *)
(* without carrying hundreds of characters in the state.                   *)
(***************************************************************************)
EXTENDS Integers, Sequences, FiniteSets, TLC

VARIABLES
    pc,          \* position of the instance / of the current validate call
    requested,   \* the AIValidatorConfig handed to the constructor
    config,      \* AIValidator.config (the effective configuration)
    judge,       \* ContextValidator.useLLMJudge / llmJudge and its provider
    input,       \* the ValidationInput of the call in progress
    cls,         \* the call of the query classifier
    grader,      \* the call of the semantic grader inside the context task
    acc,         \* the accuracy task of the fan-out
    ctx,         \* the context task of the fan-out
    hal,         \* the hallucination task of the fan-out
    result,      \* what validate resolved to
    raised,      \* validate rejected (an exception reached the caller)
    calls,       \* how often each collaborator was invoked in this call
    fin,         \* calculateConfidence: the arguments of two calls
    fout         \* calculateConfidence: the two ConfidenceResults

vars == <<pc, requested, config, judge, input, cls, grader, acc, ctx, hal,
          result, raised, calls, fin, fout>>

\* ------------------------------------------------------------------ bounds

\* rates are drawn from the grid 0, 1/RateSteps, ..., 1
RateSteps == 2
\* source lists have at most MaxSources entries
MaxSources == 2

\* ------------------------------------------------------------- absent value

Null == [null |-> TRUE]

\* ---------------------------------------------------------------- rationals

Abs(x) == IF x < 0 THEN -x ELSE x

RECURSIVE GCD(_, _)
GCD(a, b) == IF b = 0 THEN a ELSE GCD(b, a % b)

\* n/d in lowest terms, d > 0
Rat(n, d) == LET g == GCD(Abs(n), d) IN [n |-> n \div g, d |-> d \div g]

Zero == Rat(0, 1)
One == Rat(1, 1)
Half == Rat(1, 2)

RAdd(a, b) == Rat(a.n * b.d + b.n * a.d, a.d * b.d)
RSub(a, b) == Rat(a.n * b.d - b.n * a.d, a.d * b.d)
RMul(a, b) == Rat(a.n * b.n, a.d * b.d)
RLt(a, b) == a.n * b.d < b.n * a.d
RLeq(a, b) == a.n * b.d <= b.n * a.d
RMin(a, b) == IF RLt(b, a) THEN b ELSE a
RMax(a, b) == IF RLt(a, b) THEN b ELSE a

\* Math.round(x): the integer nearest to x, halves towards +infinity
MathRound(x) == (2 * x.n + x.d) \div (2 * x.d)

\* no rounding
Round2Missing(x) == x

\* Math.round(x * 100) / 100
Round2(x) == Rat(MathRound(RMul(x, Rat(100, 1))), 100)

\* the side of the exact value a double sum falls on: -1 below, 1 not below
DoubleErrors == {-1, 1}

\* Math.round(x * 100) / 100 of a double sum whose exact value is x
Round2Sum(x, err) ==
    IF err < 0 /\ (200 * x.n) % x.d = 0 /\ (100 * x.n) % x.d # 0
    THEN Rat(MathRound(RMul(x, Rat(100, 1))) - 1, 100)
    ELSE Round2(x)

\* x >= bound of a double sum whose exact value is x
SumAtLeast(x, bound, err) == IF x = bound THEN err > 0 ELSE RLeq(bound, x)

\* x is in [0, 1]
InUnit(x) == RLeq(Zero, x) /\ RLeq(x, One)
\* x is a multiple of 0.01
IsHundredth(x) == 100 % x.d = 0

\* --------------------------------------------------------------------- text

LowerCase == <<"a","b","c","d","e","f","g","h","i","j","k","l","m",
               "n","o","p","q","r","s","t","u","v","w","x","y","z">>
UpperCase == <<"A","B","C","D","E","F","G","H","I","J","K","L","M",
               "N","O","P","Q","R","S","T","U","V","W","X","Y","Z">>
Digits == {"0","1","2","3","4","5","6","7","8","9"}

\* \w of a JavaScript regular expression
IsWordChar(c) ==
    \/ \E i \in 1..26 : c = LowerCase[i] \/ c = UpperCase[i]
    \/ c \in Digits
    \/ c = "_"

\* \s of a JavaScript regular expression (the characters the model uses)
IsSpace(c) == c \in {" ", "\t", "\n"}

\* String.prototype.toLowerCase
toLowerCase(s) ==
    [i \in 1..Len(s) |->
        IF \E k \in 1..26 : UpperCase[k] = s[i]
        THEN LowerCase[CHOOSE k \in 1..26 : UpperCase[k] = s[i]]
        ELSE s[i]]

KeepWordOrSpace(c) == IsWordChar(c) \/ IsSpace(c)

\* s.replace(/[^\w\s]/g, '')
StripPunctuation(s) == SelectSeq(s, KeepWordOrSpace)

\* s.toLowerCase().replace(/[^\w\s]/g, '')
Clean(s) == StripPunctuation(toLowerCase(s))

\* s.split(/\s+/) from position i on, cur being the piece read so far: a
\* run of white space ends a piece; a leading or trailing run leaves an
\* empty piece, and the empty string splits into one empty piece
RECURSIVE SplitFrom(_, _, _)
SplitFrom(s, i, cur) ==
    IF i > Len(s) THEN <<cur>>
    ELSE IF IsSpace(s[i])
         THEN IF i > 1 /\ IsSpace(s[i - 1])
              THEN SplitFrom(s, i + 1, cur)
              ELSE <<cur>> \o SplitFrom(s, i + 1, <<>>)
         ELSE SplitFrom(s, i + 1, Append(cur, s[i]))

SplitWhitespace(s) == SplitFrom(s, 1, <<>>)

LongerThan3(w) == Len(w) > 3
LongerThan2(w) == Len(w) > 2

\* Array.prototype.includes
Includes(words, w) == \E j \in 1..Len(words) : words[j] = w

\* the number of entries of ws that occur in pool
RECURSIVE CountIn(_, _)
CountIn(ws, pool) ==
    IF ws = <<>> THEN 0
    ELSE (IF Includes(pool, Head(ws)) THEN 1 ELSE 0) + CountIn(Tail(ws), pool)

\* sources.map(s => clean(s.content)).join(' ').  The padding of a content
\* is punctuation, which the cleaning removes, so the cleaned content is the
\* cleaned text.
RECURSIVE JoinCleanContents(_)
JoinCleanContents(sources) ==
    IF sources = <<>> THEN <<>>
    ELSE IF Len(sources) = 1 THEN Clean(sources[1].content)
    ELSE Clean(sources[1].content) \o <<" ">> \o JoinCleanContents(Tail(sources))

\* source.content.length
ContentLength(source) == Len(source.content) + source.pad

\* ------------------------------------------- ContextValidator: lexical path

\* the lexical validation with the query words filtered like the response
\* words (longer than 3 characters)
wordMatchingValidationLongQueryWords(query, response, sources) ==
    LET cleanResponse == Clean(response)
        sourceContent == JoinCleanContents(sources)
        responseWords == SelectSeq(SplitWhitespace(cleanResponse), LongerThan3)
        sourceWords == SelectSeq(SplitWhitespace(sourceContent), LongerThan3)
        wordsInSource == CountIn(responseWords, sourceWords)
        sourceRelevance ==
            IF Len(responseWords) > 0
            THEN Rat(wordsInSource, Len(responseWords)) ELSE Half
        queryWords == SelectSeq(SplitWhitespace(Clean(query)), LongerThan3)
        queryWordsInResponse == CountIn(queryWords, responseWords)
        sourceUsageRate ==
            IF Len(queryWords) > 0
            THEN Rat(queryWordsInResponse, Len(queryWords)) ELSE Half
    IN  [source_relevance |-> RMin(sourceRelevance, One),
         source_usage_rate |-> sourceUsageRate,
         valid |-> RLt(Rat(3, 10), sourceRelevance)]

wordMatchingValidation(query, response, sources) ==
    LET cleanResponse == Clean(response)
        sourceContent == JoinCleanContents(sources)
        responseWords == SelectSeq(SplitWhitespace(cleanResponse), LongerThan3)
        sourceWords == SelectSeq(SplitWhitespace(sourceContent), LongerThan3)
        wordsInSource == CountIn(responseWords, sourceWords)
        sourceRelevance ==
            IF Len(responseWords) > 0
            THEN Rat(wordsInSource, Len(responseWords)) ELSE Half
        queryWords == SelectSeq(SplitWhitespace(Clean(query)), LongerThan2)
        queryWordsInResponse == CountIn(queryWords, responseWords)
        sourceUsageRate ==
            IF Len(queryWords) > 0
            THEN Rat(queryWordsInResponse, Len(queryWords)) ELSE Half
    IN  [source_relevance |-> RMin(sourceRelevance, One),
         source_usage_rate |-> sourceUsageRate,
         valid |-> RLt(Rat(3, 10), sourceRelevance)]

\* ------------------------------------------------------- ConfidenceScorer

\* the quality of one source, lines 102-112
SourceQualityOf(source) ==
    LET base == Rat(5, 10)
        q1 == IF ContentLength(source) > 100 THEN RAdd(base, Rat(2, 10)) ELSE base
        q2 == IF ContentLength(source) > 500 THEN RAdd(q1, Rat(2, 10)) ELSE q1
        q3 == IF "title" \in DOMAIN source /\ Len(source.title) > 0
              THEN RAdd(q2, Rat(1, 10)) ELSE q2
    IN  RMin(q3, One)

RECURSIVE TotalQuality(_)
TotalQuality(sources) ==
    IF sources = <<>> THEN Zero
    ELSE RAdd(SourceQualityOf(Head(sources)), TotalQuality(Tail(sources)))

\* an empty source list is given the base quality
calculateSourceQualityBaseForNone(sources) ==
    IF Len(sources) = 0 THEN Rat(5, 10)
    ELSE RMul(TotalQuality(sources), Rat(1, Len(sources)))

calculateSourceQuality(sources) ==
    IF Len(sources) = 0 THEN Zero
    ELSE RMul(TotalQuality(sources), Rat(1, Len(sources)))

\* The additions of lines 102-109 in doubles: 0.5 + 0.2 is the double 0.7
\* and 0.5 + 0.1 the double 0.6, but 0.7 + 0.2 is 0.8999999999999999,
\* 0.7 + 0.1 is 0.7999999999999999 and 0.8999999999999999 + 0.1 is
\* 0.9999999999999999: the quality of a source falls short of its decimal
\* value when a second or third term is added to 0.7.
QualityFallsShort(source) ==
    /\ ContentLength(source) > 100
    /\ \/ ContentLength(source) > 500
       \/ "title" \in DOMAIN source /\ Len(source.title) > 0

\* where the double calculateSourceQuality returns lies with respect to the
\* exact value: 0 on it, -1 below, 1 above.  It is determined for no source
\* (the literal 0), for one source (0 + quality, divided by 1) and for
\* sources of quality 0.5 alone (their sums and the quotient are exact).
\* Sources all short of 1.0 add up to less than their number, so the
\* quotient cannot exceed 1.  For other lists the model leaves the rounding
\* of the sum and of the division open.
SourceQualityErrors(sources) ==
    IF Len(sources) = 0 THEN {0}
    ELSE IF Len(sources) = 1
    THEN (IF QualityFallsShort(sources[1]) THEN {-1} ELSE {0})
    ELSE IF \A i \in 1..Len(sources) : SourceQualityOf(sources[i]) = Rat(5, 10)
    THEN {0}
    ELSE IF \A i \in 1..Len(sources) : SourceQualityOf(sources[i]) = One
    THEN {-1, 0}
    ELSE {-1, 0, 1}

\* the weights of the release before 1.2.0: the same for every regime
SelectWeightsFixed(accuracyEnabled, hallucinationEnabled) ==
    [accuracy |-> Rat(35, 100), context |-> Rat(25, 100),
     hallucination |-> Rat(30, 100), sourceQuality |-> Rat(10, 100)]

\* the weights chosen from the enabled checks, lines 15-48
SelectWeights(accuracyEnabled, hallucinationEnabled) ==
    IF ~accuracyEnabled /\ ~hallucinationEnabled
    THEN [accuracy |-> Zero, context |-> Rat(60, 100),
          hallucination |-> Zero, sourceQuality |-> Rat(40, 100)]
    ELSE IF ~accuracyEnabled
    THEN [accuracy |-> Zero, context |-> Rat(35, 100),
          hallucination |-> Rat(45, 100), sourceQuality |-> Rat(20, 100)]
    ELSE IF ~hallucinationEnabled
    THEN [accuracy |-> Rat(50, 100), context |-> Rat(30, 100),
          hallucination |-> Zero, sourceQuality |-> Rat(20, 100)]
    ELSE [accuracy |-> Rat(35, 100), context |-> Rat(25, 100),
          hallucination |-> Rat(30, 100), sourceQuality |-> Rat(10, 100)]

\* the weighted sum without the source-quality term
WeightedSumWithoutQuality(accuracyScore, contextScore, hallucinationScore, sourceQualityScore, weights) ==
    RAdd(RAdd(RMul(accuracyScore, weights.accuracy),
              RMul(contextScore, weights.context)),
         RMul(hallucinationScore, weights.hallucination))

\* the weighted sum of lines 57-61
WeightedSum(accuracyScore, contextScore, hallucinationScore, sourceQualityScore, weights) ==
    RAdd(RAdd(RAdd(RMul(accuracyScore, weights.accuracy),
                   RMul(contextScore, weights.context)),
              RMul(hallucinationScore, weights.hallucination)),
         RMul(sourceQualityScore, weights.sourceQuality))

\* the level of lines 74-81, from the unrounded score
LevelOf(confidenceScore, err) ==
    IF SumAtLeast(confidenceScore, Rat(8, 10), err) THEN "high"
    ELSE IF SumAtLeast(confidenceScore, Rat(5, 10), err) THEN "medium"
    ELSE "low"

\* an exception thrown by a step
Thrown(message) == [threw |-> TRUE, isError |-> TRUE, message |-> message]
IsThrown(v) == "threw" \in DOMAIN v

\* enabledChecks is Null when the optional argument is left out; reading a
\* field of a result that is null throws a TypeError
calculateConfidence(accuracyResult, contextResult, hallucinationResult, sources, enabledChecks, err) ==
    IF accuracyResult = Null \/ contextResult = Null \/ hallucinationResult = Null
    THEN Thrown("TypeError")
    ELSE
    LET accuracyEnabled == IF enabledChecks = Null THEN TRUE ELSE enabledChecks.accuracy
        hallucinationEnabled ==
            IF enabledChecks = Null THEN TRUE ELSE enabledChecks.hallucination
        weights == SelectWeights(accuracyEnabled, hallucinationEnabled)
        accuracyScore == accuracyResult.verification_rate
        contextScore == contextResult.source_relevance
        hallucinationScore == RSub(One, hallucinationResult.risk)
        sourceQualityScore == calculateSourceQuality(sources)
        confidenceScore ==
            WeightedSum(accuracyScore, contextScore, hallucinationScore,
                        sourceQualityScore, weights)
    IN  [confidence_score |-> Round2Sum(confidenceScore, err),
         level |-> LevelOf(confidenceScore, err),
         breakdown |->
            [accuracy_score |-> Round2(accuracyScore),
             context_score |-> Round2(contextScore),
             hallucination_score |-> Round2(hallucinationScore),
             source_quality |-> Round2(sourceQualityScore)]]

\* ------------------------------------------------------------- LLMJudge

\* The raw provider output is a sequence of pieces: [k |-> "text"] is a run
\* of characters without braces, [k |-> "open"] is "{", [k |-> "close"] is
\* "}", and [k |-> "members", v |-> m] is the text of well-formed JSON
\* members, m mapping each member name to its value.  A value is
\* [t |-> "number", v |-> rational], [t |-> "boolean", b |-> BOOLEAN] or
\* [t |-> "string"] (a string that is no numeral).

Piece(k) == [k |-> k]
Members(m) == [k |-> "members", v |-> m]
JsNumber(x) == [t |-> "number", v |-> x]
JsBoolean(b) == [t |-> "boolean", b |-> b]
JsString == [t |-> "string"]

\* result.match(/\{[\s\S]*\}/): from the first "{" that a "}" follows to the
\* last "}" of the output; Null when there is no match
MatchBraces(raw) ==
    LET opens == {i \in 1..Len(raw) : raw[i].k = "open"}
        closes == {j \in 1..Len(raw) : raw[j].k = "close"}
    IN  IF opens = {} \/ closes = {} THEN Null
        ELSE LET first == CHOOSE i \in opens : \A o \in opens : i <= o
                 last == CHOOSE j \in closes : \A c \in closes : c <= j
             IN  IF first < last
                 THEN [text |-> SubSeq(raw, first, last)]
                 ELSE Null

\* JSON.parse of the matched text: the object, or a SyntaxError
JsonParse(text) ==
    IF Len(text) = 2 /\ text[1].k = "open" /\ text[2].k = "close"
    THEN [object |-> <<>>]
    ELSE IF Len(text) = 3 /\ text[1].k = "open" /\ text[2].k = "members"
            /\ text[3].k = "close"
    THEN [object |-> text[2].v]
    ELSE Thrown("SyntaxError")

\* Number(v) || 0, v being the member `name` of the object
NumberOrZero(object, name) ==
    IF name \notin DOMAIN object THEN Zero
    ELSE LET v == object[name]
         IN  IF v.t = "number" THEN v.v
             ELSE IF v.t = "boolean" THEN (IF v.b THEN One ELSE Zero)
             ELSE Zero

\* Math.max(0, Math.min(1, x))
Clamp01(x) == RMax(Zero, RMin(One, x))

JudgeDefaults ==
    [source_relevance |-> Half, source_usage_rate |-> Half, valid |-> FALSE]

parseValidationResult(raw) ==
    LET jsonMatch == MatchBraces(raw)
    IN  IF jsonMatch = Null THEN JudgeDefaults
        ELSE LET parsed == JsonParse(jsonMatch.text)
             IN  IF IsThrown(parsed) THEN JudgeDefaults
                 ELSE [source_relevance |->
                          Clamp01(NumberOrZero(parsed.object, "source_relevance")),
                       source_usage_rate |->
                          Clamp01(NumberOrZero(parsed.object, "source_usage_rate")),
                       valid |->
                          /\ "valid" \in DOMAIN parsed.object
                          /\ parsed.object["valid"].t = "boolean"
                          /\ parsed.object["valid"].b]

\* callOpenAI / callClaude: an empty content is replaced by '{}'
ProviderContent(content) ==
    IF content = <<>> THEN <<Piece("open"), Piece("close")>> ELSE content

\* new LLMJudge(openaiApiKey, claudeApiKey): the provider is chosen by the
\* credential supplied, OpenAI first
LLMJudgeConstructor(openaiApiKey, claudeApiKey) ==
    IF openaiApiKey THEN [provider |-> "openai"]
    ELSE IF claudeApiKey THEN [provider |-> "claude"]
    ELSE Thrown("At least one API key (OpenAI or Claude) must be provided for LLM Judge")

\* --------------------------------------------------- construction

\* new ContextValidator(openaiApiKey, claudeApiKey, useLLMJudge)
ContextValidatorConstructor(openaiApiKey, claudeApiKey, useLLMJudge) ==
    LET use == useLLMJudge /\ (openaiApiKey \/ claudeApiKey)
    IN  IF use
        THEN LET j == LLMJudgeConstructor(openaiApiKey, claudeApiKey)
             IN  IF IsThrown(j) THEN j
                 ELSE [useLLMJudge |-> TRUE, llmJudge |-> j]
        ELSE [useLLMJudge |-> FALSE, llmJudge |-> Null]

\* the defaults of lines 138-143
ConfigDefaults ==
    [confidenceThreshold |-> Rat(7, 10),
     enableQueryClassification |-> TRUE,
     enableAccuracyCheck |-> FALSE,
     enableHallucinationDetection |-> FALSE,
     enableContextValidation |-> TRUE,
     useLLMJudge |-> FALSE]

\* { ...defaults, ...config }: a field the caller supplies overrides the
\* default; a credential is a field that is present or not
MergeDefaults(cfg) ==
    [f \in DOMAIN ConfigDefaults \cup DOMAIN cfg |->
        IF f \in DOMAIN cfg THEN cfg[f] ELSE ConfigDefaults[f]]

HasKey(cfg, name) == name \in DOMAIN cfg

NoApiKey(cfg) == ~HasKey(cfg, "openaiApiKey") /\ ~HasKey(cfg, "claudeApiKey")

\* validateConfig without the block that disables the accuracy check
validateConfigKeepsAccuracy(cfg) ==
    LET c1 == IF cfg.useLLMJudge /\ NoApiKey(cfg)
              THEN [cfg EXCEPT !.useLLMJudge = FALSE] ELSE cfg
        c3 == IF c1.enableHallucinationDetection /\ NoApiKey(c1)
              THEN [c1 EXCEPT !.enableHallucinationDetection = FALSE] ELSE c1
    IN  c3

validateConfig(cfg) ==
    LET c1 == IF cfg.useLLMJudge /\ NoApiKey(cfg)
              THEN [cfg EXCEPT !.useLLMJudge = FALSE] ELSE cfg
        c2 == IF c1.enableAccuracyCheck /\ NoApiKey(c1)
              THEN [c1 EXCEPT !.enableAccuracyCheck = FALSE] ELSE c1
        c3 == IF c2.enableHallucinationDetection /\ NoApiKey(c2)
              THEN [c2 EXCEPT !.enableHallucinationDetection = FALSE] ELSE c2
    IN  c3

\* new AIValidator(cfg): the effective configuration and the context
\* validator, or the exception the construction ends with
AIValidatorConstructor(cfg) ==
    LET effective == validateConfig(MergeDefaults(cfg))
        contextValidator ==
            ContextValidatorConstructor(HasKey(effective, "openaiApiKey"),
                                        HasKey(effective, "claudeApiKey"),
                                        effective.useLLMJudge)
    IN  IF IsThrown(contextValidator) THEN contextValidator
        ELSE [config |-> effective, contextValidator |-> contextValidator]

\* ------------------------------------------------------- the inputs drawn

\* the rates 0, 1/RateSteps, ..., 1
Rates == {Rat(k, RateSteps) : k \in 0..RateSteps}

DataFlow == <<"D","a","t","a"," ","f","l","o","w",".">>
FlowGraph == <<"F","l","o","w"," ","g","r","a","p","h">>

\* a short untitled source, a source of 101 characters with an empty title
\* and a titled source of 510 characters
ShortSource == [content |-> DataFlow, pad |-> 0]
MediumSource == [content |-> DataFlow, pad |-> 91, title |-> <<>>]
LongSource == [content |-> FlowGraph, pad |-> 500, title |-> <<"T">>]

SourceSamples == {ShortSource, LongSource}

RECURSIVE SeqsUpTo(_, _)
SeqsUpTo(S, n) ==
    IF n = 0 THEN {<<>>}
    ELSE LET shorter == SeqsUpTo(S, n - 1)
         IN  shorter \cup {Append(q, x) : q \in {r \in shorter : Len(r) = n - 1}, x \in S}

SourceLists == SeqsUpTo(SourceSamples, MaxSources)

Queries == {<<>>, <<"d","a","t","a","?">>}
Responses == {<<"H","i","!">>,
              <<"T","h","e"," ","d","a","t","a"," "," ","F","L","O","W","!">>}

ValidationInputs ==
    {[query |-> q, response |-> r, sources |-> ss] :
        q \in Queries, r \in Responses, ss \in SourceLists}

\* what the query classifier answers
Classifications ==
    {[type |-> "greeting", confidence |-> One, skip_validation |-> TRUE],
     [type |-> "question", confidence |-> One, skip_validation |-> FALSE]}

\* what a collaborator throws: an Error with a message, or another value
Errors == {Thrown("provider unavailable"),
           [threw |-> TRUE, isError |-> FALSE, message |-> ""]}
\* what a provider call throws
ProviderErrors == {Thrown("provider unavailable")}

\* what the accuracy checker resolves to: an AccuracyResult, or null
AccuracyResults ==
    {[verified |-> RLeq(Half, r), verification_rate |-> r] : r \in Rates} \cup {Null}

\* what the hallucination detector resolves to: a HallucinationResult, or
\* null; the detector sets `detected` and `risk` separately
HallucinationResults ==
    {[detected |-> RLt(Half, r), risk |-> r] : r \in Rates}
    \cup {[detected |-> TRUE, risk |-> Zero], [detected |-> FALSE, risk |-> One]}
    \cup {Null}

\* what the provider of the semantic grader answers
Verdict ==
    Members([valid |-> JsBoolean(TRUE),
             source_relevance |-> JsNumber(Rat(9, 10)),
             source_usage_rate |-> JsNumber(Rat(3, 2))])
ProviderContents ==
    {<<>>,
     <<Piece("text")>>,
     <<Piece("text"), Piece("open"), Verdict, Piece("close"), Piece("text")>>}

\* the configurations handed to the constructor: a toggle is left out, on
\* or off; a credential is supplied or not
Toggle == {"absent", "on", "off"}
Field(name, t) == IF t = "absent" THEN <<>> ELSE name :> (t = "on")
Key(name, present) == IF present THEN name :> TRUE ELSE <<>>
Threshold(t) == IF t = Null THEN <<>> ELSE "confidenceThreshold" :> t

Thresholds == {Null, Zero, One}

ConfigOf(provider, ok, ck, thr, qc, ac, hd, cv, lj) ==
    ("llmProvider" :> provider) @@ Key("openaiApiKey", ok) @@ Key("claudeApiKey", ck)
    @@ Threshold(thr) @@ Field("enableQueryClassification", qc)
    @@ Field("enableAccuracyCheck", ac) @@ Field("enableHallucinationDetection", hd)
    @@ Field("enableContextValidation", cv) @@ Field("useLLMJudge", lj)

Configs ==
    {ConfigOf(provider, ok, ck, thr, qc, ac, hd, cv, lj) :
        provider \in {"openai", "claude"}, ok \in BOOLEAN, ck \in BOOLEAN,
        thr \in Thresholds, qc \in Toggle, ac \in Toggle, hd \in Toggle,
        cv \in Toggle, lj \in Toggle}

\* ------------------------------------------------------ construction steps

InitConstruct ==
    /\ pc = "new"
    /\ requested \in Configs
    /\ config = Null /\ judge = Null /\ input = Null /\ cls = Null /\ grader = Null
    /\ acc = Null /\ ctx = Null /\ hal = Null
    /\ result = Null /\ raised = FALSE /\ calls = Null
    /\ fin = Null /\ fout = Null

Construct ==
    /\ pc = "new"
    /\ LET made == AIValidatorConstructor(requested)
       IN  IF IsThrown(made)
           THEN /\ pc' = "construction failed"
                /\ UNCHANGED <<config, judge>>
           ELSE /\ pc' = "idle"
                /\ config' = made.config
                /\ judge' = made.contextValidator
    /\ UNCHANGED <<requested, input, cls, grader, acc, ctx, hal, result, raised,
                   calls, fin, fout>>

NextConstruct == Construct

SpecConstruct == InitConstruct /\ [][NextConstruct]_vars

\* ------------------------------------------- ContextValidator.validateContext

\* a result for no sources that reports full relevance
ZeroContextFullRelevance ==
    [source_relevance |-> One, source_usage_rate |-> One, valid |-> TRUE]

\* the result for an empty source list, lines 17-23
ZeroContext ==
    [source_relevance |-> Zero, source_usage_rate |-> Zero, valid |-> FALSE]

\* validateContext without the test for an empty source list
validateContextBeginNoEmptyTest(contextValidator, query, response, sources) ==
    IF contextValidator.useLLMJudge /\ contextValidator.llmJudge # Null
    THEN [step |-> "await judge"]
    ELSE [step |-> "return",
          res |-> wordMatchingValidation(query, response, sources), lexical |-> 1]

\* validateContext up to its first await: the result it returns at once,
\* or the call of the semantic grader it waits for
validateContextBegin(contextValidator, query, response, sources) ==
    IF Len(sources) = 0
    THEN [step |-> "return", res |-> ZeroContext, lexical |-> 0]
    ELSE IF contextValidator.useLLMJudge /\ contextValidator.llmJudge # Null
    THEN [step |-> "await judge"]
    ELSE [step |-> "return",
          res |-> wordMatchingValidation(query, response, sources), lexical |-> 1]

Pending == [st |-> "pending"]
Resolved(r) == [st |-> "ok", res |-> r]
Rejected(e) == [st |-> "err", error |-> e]

\* validateContext without the try/catch around the grader call
validateContextResumeNoCatch(outcome, query, response, sources) ==
    IF IsThrown(outcome)
    THEN [task |-> Rejected(outcome), lexical |-> 0]
    ELSE [task |-> Resolved(outcome), lexical |-> 0]

\* validateContext after the semantic grader settled, lines 27-32: outcome
\* is what llmJudge.validateContext resolved to, or what it threw; the
\* promise of validateContext settles as `task`
validateContextResume(outcome, query, response, sources) ==
    IF IsThrown(outcome)
    THEN [task |-> Resolved(wordMatchingValidation(query, response, sources)),
          lexical |-> 1]
    ELSE [task |-> Resolved(outcome), lexical |-> 0]

\* ------------------------------------------------------ AIValidator.validate

NoCalls ==
    [classifier |-> 0, accuracy |-> 0, context |-> 0, hallucination |-> 0,
     judge |-> 0, lexical |-> 0, fusion |-> 0]

AccuracyDefault == [verified |-> TRUE, verification_rate |-> One]
ContextDefault == [source_relevance |-> One, source_usage_rate |-> One, valid |-> TRUE]
HallucinationDefault == [detected |-> FALSE, risk |-> Zero]

\* the result of lines 173-182
ShortCircuit(classification) ==
    [confidence |-> One,
     valid |-> TRUE,
     accuracy |-> AccuracyDefault,
     context |-> ContextDefault,
     hallucination |-> HallucinationDefault,
     warnings |-> <<>>,
     query_type |-> classification.type,
     skip_validation |-> TRUE]

\* the result of the catch block, lines 229-236; a warning is the sequence
\* of the pieces its text is put together from
FailClosed(error) ==
    [confidence |-> Zero,
     valid |-> FALSE,
     accuracy |-> [verified |-> FALSE, verification_rate |-> Zero,
                   reason |-> "validation_error"],
     context |-> ZeroContext,
     hallucination |-> [detected |-> TRUE, risk |-> One],
     warnings |-> << <<"Validation failed: ",
                       IF error.isError THEN error.message ELSE "unknown error">> >>]

\* validate without its catch block: the exception reaches the caller
CatchMissing(error) == [result |-> Null, raised |-> TRUE]

\* try { ... } catch (error) { return ... }: what validate does with an
\* exception thrown inside it
Catch(error) == [result |-> FailClosed(error), raised |-> FALSE]

\* the warnings as an else-if chain: at most one of them is emitted
generateWarningsFirstOnly(accuracyResult, contextResult, hallucinationResult, sources) ==
    IF Len(sources) = 0
    THEN << <<"No sources provided - high hallucination risk">> >>
    ELSE IF RLt(accuracyResult.verification_rate, Rat(5, 10))
    THEN << <<"Low accuracy verification rate">> >>
    ELSE IF RLt(contextResult.source_relevance, Rat(3, 10))
    THEN << <<"Low context relevance">> >>
    ELSE IF RLt(Rat(5, 10), hallucinationResult.risk)
    THEN << <<"High hallucination risk detected">> >>
    ELSE IF hallucinationResult.detected
    THEN << <<"Hallucination detected in response">> >>
    ELSE <<>>

generateWarnings(accuracyResult, contextResult, hallucinationResult, sources) ==
    (IF Len(sources) = 0
     THEN << <<"No sources provided - high hallucination risk">> >> ELSE <<>>)
    \o (IF RLt(accuracyResult.verification_rate, Rat(5, 10))
        THEN << <<"Low accuracy verification rate">> >> ELSE <<>>)
    \o (IF RLt(contextResult.source_relevance, Rat(3, 10))
        THEN << <<"Low context relevance">> >> ELSE <<>>)
    \o (IF RLt(Rat(5, 10), hallucinationResult.risk)
        THEN << <<"High hallucination risk detected">> >> ELSE <<>>)
    \o (IF hallucinationResult.detected
        THEN << <<"Hallucination detected in response">> >> ELSE <<>>)

\* this.config.confidenceThreshold || 0.7: zero is falsy
ThresholdUsed(cfg) ==
    IF cfg.confidenceThreshold = Zero THEN Rat(7, 10) ELSE cfg.confidenceThreshold

\* steps 3 to 5 of validate, lines 201-226
FuseAndDecide(cfg, in, accuracyResult, contextResult, hallucinationResult, err) ==
    LET confidenceResult ==
            calculateConfidence(accuracyResult, contextResult, hallucinationResult,
                in.sources,
                [accuracy |-> cfg.enableAccuracyCheck,
                 hallucination |-> cfg.enableHallucinationDetection],
                err)
    IN  IF IsThrown(confidenceResult) THEN Catch(confidenceResult)
        ELSE [result |->
                [confidence |-> confidenceResult.confidence_score,
                 valid |-> RLeq(ThresholdUsed(cfg), confidenceResult.confidence_score),
                 accuracy |-> accuracyResult,
                 context |-> contextResult,
                 hallucination |-> hallucinationResult,
                 warnings |-> generateWarnings(accuracyResult, contextResult,
                                               hallucinationResult, in.sources)],
             raised |-> FALSE]

\* validate resolves (or rejects) with the outcome o
Settle(o) ==
    /\ pc' = "done"
    /\ result' = o.result
    /\ raised' = o.raised

\* the fan-out with the accuracy checker started whatever its toggle says
FanOutStartsAccuracy(in, c) ==
    LET begun == validateContextBegin(judge, in.query, in.response, in.sources)
        awaitsJudge == config.enableContextValidation /\ begun.step = "await judge"
    IN  /\ pc' = "fanout"
        /\ acc' = Pending
        /\ ctx' = IF ~config.enableContextValidation THEN Resolved(ContextDefault)
                  ELSE IF awaitsJudge THEN Pending
                  ELSE Resolved(begun.res)
        /\ hal' = IF config.enableHallucinationDetection THEN Pending
                  ELSE Resolved(HallucinationDefault)
        /\ grader' = IF awaitsJudge THEN Pending ELSE Null
        /\ calls' = [c EXCEPT
              !.accuracy = @ + 1,
              !.context = @ + (IF config.enableContextValidation THEN 1 ELSE 0),
              !.hallucination = @ + (IF config.enableHallucinationDetection THEN 1 ELSE 0),
              !.judge = @ + (IF awaitsJudge THEN 1 ELSE 0),
              !.lexical = @ + (IF config.enableContextValidation /\ ~awaitsJudge
                               THEN begun.lexical ELSE 0)]
        /\ UNCHANGED <<result, raised>>

\* step 2, lines 187-199, up to the await: an enabled check is started, a
\* disabled one is replaced by its default
FanOut(in, c) ==
    LET begun == validateContextBegin(judge, in.query, in.response, in.sources)
        awaitsJudge == config.enableContextValidation /\ begun.step = "await judge"
    IN  /\ pc' = "fanout"
        /\ acc' = IF config.enableAccuracyCheck THEN Pending
                  ELSE Resolved(AccuracyDefault)
        /\ ctx' = IF ~config.enableContextValidation THEN Resolved(ContextDefault)
                  ELSE IF awaitsJudge THEN Pending
                  ELSE Resolved(begun.res)
        /\ hal' = IF config.enableHallucinationDetection THEN Pending
                  ELSE Resolved(HallucinationDefault)
        /\ grader' = IF awaitsJudge THEN Pending ELSE Null
        /\ calls' = [c EXCEPT
              !.accuracy = @ + (IF config.enableAccuracyCheck THEN 1 ELSE 0),
              !.context = @ + (IF config.enableContextValidation THEN 1 ELSE 0),
              !.hallucination = @ + (IF config.enableHallucinationDetection THEN 1 ELSE 0),
              !.judge = @ + (IF awaitsJudge THEN 1 ELSE 0),
              !.lexical = @ + (IF config.enableContextValidation /\ ~awaitsJudge
                               THEN begun.lexical ELSE 0)]
        /\ UNCHANGED <<result, raised>>

\* a caller calls validate(in)
Validate(in) ==
    /\ pc = "idle"
    /\ input' = in
    /\ IF config.enableQueryClassification
       THEN /\ pc' = "classify"
            /\ cls' = Pending
            /\ calls' = [NoCalls EXCEPT !.classifier = 1]
            /\ acc' = Null /\ ctx' = Null /\ hal' = Null /\ grader' = Null
            /\ UNCHANGED <<result, raised>>
       ELSE /\ cls' = Null
            /\ FanOut(in, NoCalls)
    /\ UNCHANGED <<requested, config, judge, fin, fout>>

\* the classification is stored but skip_validation is not looked at
ClassifierReturnsNoShortCircuit(classification) ==
    /\ pc = "classify"
    /\ cls' = Resolved(classification)
    /\ FanOut(input, calls)
    /\ UNCHANGED <<requested, config, judge, input, fin, fout>>

\* the query classifier resolves
ClassifierReturns(classification) ==
    /\ pc = "classify"
    /\ cls' = Resolved(classification)
    /\ IF classification.skip_validation
       THEN /\ Settle([result |-> ShortCircuit(classification), raised |-> FALSE])
            /\ UNCHANGED <<acc, ctx, hal, grader, calls>>
       ELSE FanOut(input, calls)
    /\ UNCHANGED <<requested, config, judge, input, fin, fout>>

\* the query classifier throws
ClassifierRaises(error) ==
    /\ pc = "classify"
    /\ cls' = Rejected(error)
    /\ Settle(Catch(error))
    /\ UNCHANGED <<requested, config, judge, input, grader, acc, ctx, hal, calls,
                   fin, fout>>

AccuracyReturns(r) ==
    /\ pc = "fanout" /\ acc = Pending
    /\ acc' = Resolved(r)
    /\ UNCHANGED <<pc, requested, config, judge, input, cls, grader, ctx, hal, result,
                   raised, calls, fin, fout>>

AccuracyRaises(error) ==
    /\ pc = "fanout" /\ acc = Pending
    /\ acc' = Rejected(error)
    /\ UNCHANGED <<pc, requested, config, judge, input, cls, grader, ctx, hal, result,
                   raised, calls, fin, fout>>

HallucinationReturns(r) ==
    /\ pc = "fanout" /\ hal = Pending
    /\ hal' = Resolved(r)
    /\ UNCHANGED <<pc, requested, config, judge, input, cls, grader, acc, ctx, result,
                   raised, calls, fin, fout>>

HallucinationRaises(error) ==
    /\ pc = "fanout" /\ hal = Pending
    /\ hal' = Rejected(error)
    /\ UNCHANGED <<pc, requested, config, judge, input, cls, grader, acc, ctx, result,
                   raised, calls, fin, fout>>

\* the provider of the semantic grader answers: LLMJudge.validateContext
\* parses the answer and ContextValidator.validateContext returns it
JudgeReturns(content) ==
    /\ pc = "fanout" /\ ctx = Pending
    /\ LET parsed == parseValidationResult(ProviderContent(content))
           done == validateContextResume(parsed, input.query, input.response,
                                         input.sources)
       IN  /\ grader' = Resolved(parsed)
           /\ ctx' = done.task
           /\ calls' = [calls EXCEPT !.lexical = @ + done.lexical]
    /\ UNCHANGED <<pc, requested, config, judge, input, cls, acc, hal, result,
                   raised, fin, fout>>

\* a grader that calls its provider a second time when the first call threw
JudgeRaisesAndRetries(error) ==
    /\ pc = "fanout" /\ ctx = Pending
    /\ IF calls.judge < 2
       THEN /\ grader' = Pending
            /\ ctx' = Pending
            /\ calls' = [calls EXCEPT !.judge = @ + 1]
       ELSE LET done == validateContextResume(error, input.query, input.response,
                                             input.sources)
            IN  /\ grader' = Rejected(error)
                /\ ctx' = done.task
                /\ calls' = [calls EXCEPT !.lexical = @ + done.lexical]
    /\ UNCHANGED <<pc, requested, config, judge, input, cls, acc, hal, result,
                   raised, fin, fout>>

\* the provider call of the semantic grader throws
JudgeRaises(error) ==
    /\ pc = "fanout" /\ ctx = Pending
    /\ LET done == validateContextResume(error, input.query, input.response,
                                         input.sources)
       IN  /\ grader' = Rejected(error)
           /\ ctx' = done.task
           /\ calls' = [calls EXCEPT !.lexical = @ + done.lexical]
    /\ UNCHANGED <<pc, requested, config, judge, input, cls, acc, hal, result,
                   raised, fin, fout>>

\* a join that does not wait for the hallucination task: a task that has not
\* settled counts as its neutral default
FuseWithoutJoin ==
    /\ pc = "fanout"
    /\ acc.st = "ok" /\ ctx.st = "ok" /\ hal.st # "err"
    /\ \E err \in DoubleErrors :
          Settle(FuseAndDecide(config, input, acc.res, ctx.res,
                               IF hal.st = "ok" THEN hal.res ELSE HallucinationDefault,
                               err))
    /\ calls' = [calls EXCEPT !.fusion = @ + 1]
    /\ UNCHANGED <<requested, config, judge, input, cls, grader, acc, ctx, hal,
                   fin, fout>>

\* Promise.all resolved: all three checks have a result
Fuse ==
    /\ pc = "fanout"
    /\ acc.st = "ok" /\ ctx.st = "ok" /\ hal.st = "ok"
    /\ \E err \in DoubleErrors :
          Settle(FuseAndDecide(config, input, acc.res, ctx.res, hal.res, err))
    /\ calls' = [calls EXCEPT !.fusion = @ + 1]
    /\ UNCHANGED <<requested, config, judge, input, cls, grader, acc, ctx, hal,
                   fin, fout>>

\* Promise.all rejected: a check threw
FailFast ==
    /\ pc = "fanout"
    /\ \E t \in {acc, ctx, hal} :
          /\ t.st = "err"
          /\ Settle(Catch(t.error))
    /\ UNCHANGED <<requested, config, judge, input, cls, grader, acc, ctx, hal,
                   calls, fin, fout>>

\* a validator that, once a call was short-circuited, leaves the
\* classification out of the calls that follow
ReturnRemembersSkip ==
    /\ pc = "done"
    /\ pc' = "idle"
    /\ input' = Null /\ cls' = Null /\ grader' = Null
    /\ acc' = Null /\ ctx' = Null /\ hal' = Null
    /\ result' = Null /\ raised' = FALSE /\ calls' = Null
    /\ config' = IF "skip_validation" \in DOMAIN result
                 THEN [config EXCEPT !.enableQueryClassification = FALSE]
                 ELSE config
    /\ UNCHANGED <<requested, judge, fin, fout>>

\* the caller has the result; the instance is free for the next call
Return ==
    /\ pc = "done"
    /\ pc' = "idle"
    /\ input' = Null /\ cls' = Null /\ grader' = Null
    /\ acc' = Null /\ ctx' = Null /\ hal' = Null
    /\ result' = Null /\ raised' = FALSE /\ calls' = Null
    /\ UNCHANGED <<requested, config, judge, fin, fout>>

\* the instances validate is called on: every toggle set, no credential or
\* an OpenAI credential
ValidatorConfigs ==
    {ConfigOf("openai", ok, FALSE, thr, qc, ac, hd, cv, lj) :
        ok \in BOOLEAN, thr \in Thresholds, qc \in {"on", "off"},
        ac \in {"on", "off"}, hd \in {"on", "off"}, cv \in {"absent", "off"},
        lj \in {"on", "off"}}

Init ==
    /\ pc = "idle"
    /\ \E cfg \in ValidatorConfigs :
          LET made == AIValidatorConstructor(cfg)
          IN  /\ ~IsThrown(made)
              /\ config = made.config
              /\ judge = made.contextValidator
    /\ requested = Null /\ input = Null /\ cls = Null /\ grader = Null
    /\ acc = Null /\ ctx = Null /\ hal = Null
    /\ result = Null /\ raised = FALSE /\ calls = Null
    /\ fin = Null /\ fout = Null

Next ==
    \/ \E in \in ValidationInputs : Validate(in)
    \/ \E c \in Classifications : ClassifierReturns(c)
    \/ \E e \in Errors : ClassifierRaises(e)
    \/ \E r \in AccuracyResults : AccuracyReturns(r)
    \/ \E e \in Errors : AccuracyRaises(e)
    \/ \E r \in HallucinationResults : HallucinationReturns(r)
    \/ \E e \in ProviderErrors : HallucinationRaises(e)
    \/ \E content \in ProviderContents : JudgeReturns(content)
    \/ \E e \in ProviderErrors : JudgeRaises(e)
    \/ Fuse
    \/ FailFast
    \/ Return

Spec == Init /\ [][Next]_vars

\* ------------------------------------------- calculateConfidence, called alone

\* Two calls that agree on the context result, the sources and the enabled
\* flags: fin[1] and fin[2] are their arguments, fout[1] and fout[2] their
\* results.

FusionSourceLists == SourceLists \cup {<<MediumSource>>, <<MediumSource, LongSource>>}

EnabledChecks ==
    {[accuracy |-> a, hallucination |-> h] : a \in BOOLEAN, h \in BOOLEAN} \cup {Null}

Args(vr, rel, risk, sources, enabled) ==
    [accuracyResult |-> [verified |-> RLeq(Half, vr), verification_rate |-> vr],
     contextResult |-> [source_relevance |-> rel, source_usage_rate |-> rel,
                        valid |-> RLt(Rat(3, 10), rel)],
     hallucinationResult |-> [detected |-> RLt(Half, risk), risk |-> risk],
     sources |-> sources,
     enabledChecks |-> enabled]

\* scenario C of the specification: every check enabled, rates 0.2, 0.2,
\* risk 0.8, one short untitled source
ScenarioC ==
    Args(Rat(2, 10), Rat(2, 10), Rat(8, 10), <<ShortSource>>,
         [accuracy |-> TRUE, hallucination |-> TRUE])

\* scenario B: both checks disabled, relevance 0.9, one long titled source
ScenarioB ==
    Args(One, Rat(9, 10), Zero, <<LongSource>>,
         [accuracy |-> FALSE, hallucination |-> FALSE])

InitFusion ==
    /\ pc = "fusion"
    /\ \/ \E vr \in Rates, rel \in Rates, risk \in Rates,
            vr2 \in {Zero, Half, One}, risk2 \in {Zero, Half, One},
            ss \in FusionSourceLists, en \in EnabledChecks :
               fin = <<Args(vr, rel, risk, ss, en), Args(vr2, rel, risk2, ss, en)>>
       \/ \E a \in {ScenarioB, ScenarioC} : fin = <<a, a>>
    /\ fout = Null
    /\ requested = Null /\ config = Null /\ judge = Null /\ input = Null
    /\ cls = Null /\ grader = Null /\ acc = Null /\ ctx = Null /\ hal = Null
    /\ result = Null /\ raised = FALSE /\ calls = Null

Calculate(a, err) ==
    calculateConfidence(a.accuracyResult, a.contextResult, a.hallucinationResult,
                        a.sources, a.enabledChecks, err)

\* the flags of a call; both default to true when enabledChecks is left out
AccuracyEnabled(a) == IF a.enabledChecks = Null THEN TRUE ELSE a.enabledChecks.accuracy
HallucinationEnabled(a) ==
    IF a.enabledChecks = Null THEN TRUE ELSE a.enabledChecks.hallucination

\* the two calls add up the same doubles: the score of a disabled check is
\* multiplied by the weight 0, and adding the 0 changes nothing
SameOperands(a, b) ==
    /\ AccuracyEnabled(a) => a.accuracyResult = b.accuracyResult
    /\ HallucinationEnabled(a) => a.hallucinationResult = b.hallucinationResult

CalculateBoth ==
    /\ pc = "fusion"
    /\ pc' = "fused"
    /\ \E e1 \in DoubleErrors, e2 \in DoubleErrors :
          /\ SameOperands(fin[1], fin[2]) => e1 = e2
          /\ fout' = <<Calculate(fin[1], e1), Calculate(fin[2], e2)>>
    /\ UNCHANGED <<requested, config, judge, input, cls, grader, acc, ctx, hal,
                   result, raised, calls, fin>>

NextFusion == CalculateBoth

SpecFusion == InitFusion /\ [][NextFusion]_vars

\* ----------------------------------- wordMatchingValidation, called alone

\* fin is the query, the response and the sources of one call, fout its
\* ContextResult.

LexicalQueries ==
    Queries \cup
    {<<"a"," ","f","l","o","w"," ","m","a","p">>,
     <<"D","a","t","a"," ","d","a","t","a">>,
     <<"T","o","o","l","s","?"," ","\n","g","r","a","p","h","s"," ">>}

LexicalResponses ==
    Responses \cup
    {<<"d","a","t","a"," ","d","a","t","a"," ","g","r","a","p","h">>,
     <<" ","m","a","p","-","s"," ","o","f","\t","T","o","o","l","s"," ">>,
     <<>>}

LexicalSourceLists == {ss \in SourceLists : Len(ss) > 0}

InitLexical ==
    /\ pc = "lexical"
    /\ \E q \in LexicalQueries, r \in LexicalResponses, ss \in LexicalSourceLists :
          fin = [query |-> q, response |-> r, sources |-> ss]
    /\ fout = Null
    /\ requested = Null /\ config = Null /\ judge = Null /\ input = Null
    /\ cls = Null /\ grader = Null /\ acc = Null /\ ctx = Null /\ hal = Null
    /\ result = Null /\ raised = FALSE /\ calls = Null

Match ==
    /\ pc = "lexical"
    /\ pc' = "matched"
    /\ fout' = wordMatchingValidation(fin.query, fin.response, fin.sources)
    /\ UNCHANGED <<requested, config, judge, input, cls, grader, acc, ctx, hal,
                   result, raised, calls, fin>>

NextLexical == Match

SpecLexical == InitLexical /\ [][NextLexical]_vars

\* ------------------------- the context check with the grader, called alone

\* fin is the query, the response, the sources and what the provider call
\* ends with ([content |-> raw output] or a thrown error); fout is how the
\* promise of ContextValidator.validateContext settles, and whether the
\* lexical fallback ran.

\* a member of the verdict: left out when v is Null
Member(name, v) == IF v = Null THEN <<>> ELSE name :> v

\* the members a provider writes: `valid` as a boolean, a string or the
\* number 1, the rates as numbers inside and outside [0, 1], strings or
\* booleans, each possibly left out
VerdictMembers ==
    {Member("valid", v) @@ Member("source_relevance", rel)
        @@ Member("source_usage_rate", use) :
        v \in {Null, JsBoolean(TRUE), JsBoolean(FALSE), JsString, JsNumber(One)},
        rel \in {Null, JsNumber(Rat(9, 10)), JsNumber(Rat(3, 2)), JsNumber(Rat(-1, 2)),
                 JsString, JsBoolean(TRUE)},
        use \in {Null, JsNumber(Half)}}

\* what stands where the verdict is expected: nothing, "{}", a block of
\* malformed data, a lone "{", "}" before "{", or a well-formed verdict
Blocks ==
    {<<>>,
     <<Piece("open"), Piece("close")>>,
     <<Piece("open"), Piece("text"), Piece("close")>>,
     <<Piece("open")>>,
     <<Piece("close"), Piece("text"), Piece("open")>>}
    \cup {<<Piece("open"), Members(m), Piece("close")>> : m \in VerdictMembers}

\* the commentary before the verdict
Prefixes == {<<>>, <<Piece("text")>>}

\* the text after the verdict: none, plain, or text that has braces
Suffixes ==
    {<<>>,
     <<Piece("text")>>,
     <<Piece("text"), Piece("open"), Piece("text"), Piece("close"), Piece("text")>>}

RawOutputs == {pre \o block \o post : pre \in Prefixes, block \in Blocks, post \in Suffixes}

ProviderOutcomes == {[content |-> raw] : raw \in RawOutputs} \cup ProviderErrors

JudgedInputs ==
    {[query |-> <<"d","a","t","a","?">>, response |-> r, sources |-> <<src>>] :
        r \in Responses, src \in SourceSamples}

InitJudge ==
    /\ pc = "judging"
    /\ \E in \in JudgedInputs, p \in ProviderOutcomes :
          fin = [in |-> in, provider |-> p]
    /\ fout = Null
    /\ requested = Null /\ config = Null /\ judge = Null /\ input = Null
    /\ cls = Null /\ grader = Null /\ acc = Null /\ ctx = Null /\ hal = Null
    /\ result = Null /\ raised = FALSE /\ calls = Null

\* LLMJudge.validateContext: the provider call, then parseValidationResult
\* of what it returned
JudgeValidateContext(provider) ==
    IF IsThrown(provider) THEN provider
    ELSE parseValidationResult(ProviderContent(provider.content))

\* ContextValidator.validateContext with sources and the grader active
Judge ==
    /\ pc = "judging"
    /\ pc' = "judged"
    /\ fout' = validateContextResume(JudgeValidateContext(fin.provider),
                                     fin.in.query, fin.in.response, fin.in.sources)
    /\ UNCHANGED <<requested, config, judge, input, cls, grader, acc, ctx, hal,
                   result, raised, calls, fin>>

NextJudge == Judge

SpecJudge == InitJudge /\ [][NextJudge]_vars

\* ------------------------------------ calculateSourceQuality, called alone

\* fin is the source list, fout the score: its exact value and the side of
\* it the double lies on.

\* contents of 10, 100, 101, 500, 501 and 600 characters
QualityPads == {0, 90, 91, 490, 491, 590}

\* sources without a title, with an empty and with a non-empty title
QualitySources ==
    {[content |-> DataFlow, pad |-> p] : p \in QualityPads}
    \cup {[content |-> DataFlow, pad |-> p, title |-> t] :
             p \in QualityPads, t \in {<<>>, <<"T">>}}

QualitySourceLists == SeqsUpTo(QualitySources, MaxSources)

InitQuality ==
    /\ pc = "quality"
    /\ fin \in QualitySourceLists
    /\ fout = Null
    /\ requested = Null /\ config = Null /\ judge = Null /\ input = Null
    /\ cls = Null /\ grader = Null /\ acc = Null /\ ctx = Null /\ hal = Null
    /\ result = Null /\ raised = FALSE /\ calls = Null

Score ==
    /\ pc = "quality"
    /\ pc' = "scored"
    /\ \E off \in SourceQualityErrors(fin) :
          fout' = [score |-> calculateSourceQuality(fin), off |-> off]
    /\ UNCHANGED <<requested, config, judge, input, cls, grader, acc, ctx, hal,
                   result, raised, calls, fin>>

NextQuality == Score

SpecQuality == InitQuality /\ [][NextQuality]_vars

\* the validator and the fusion engine called alone, side by side
InitAll == Init \/ InitFusion

NextAll == Next \/ NextFusion

SpecAll == InitAll /\ [][NextAll]_vars

\* ====================================================== properties: validate

\* the state of a task, "none" when it was never started
St(task) == IF "st" \in DOMAIN task THEN task.st ELSE "none"

\* a step of the call threw: the classifier, one of the three checks, or
\* the fusion of a result that is null
SomeStepThrew ==
    \/ St(cls) = "err" \/ St(acc) = "err" \/ St(ctx) = "err" \/ St(hal) = "err"
    \/ /\ calls.fusion = 1
       /\ (acc.res = Null \/ ctx.res = Null \/ hal.res = Null)

\* the call went through the fusion and the decision
Fused ==
    /\ pc = "done"
    /\ calls.fusion = 1
    /\ acc.res # Null /\ ctx.res # Null /\ hal.res # Null

\* the classifier answered skip_validation
Skipped == St(cls) = "ok" /\ cls.res.skip_validation

IsFailure(w) == w[1] = "Validation failed: "

\* C1: validate never rejects, and a call in which the classifier, a check
\* or the fusion threw resolves to exactly the fail-closed record, with one
\* warning that begins 'Validation failed: ', whatever the threshold.
C1_FailClosed ==
    /\ ~raised
    /\ (pc = "done" /\ SomeStepThrew) =>
          /\ DOMAIN result = {"confidence", "valid", "accuracy", "context",
                              "hallucination", "warnings"}
          /\ result.confidence = Zero
          /\ result.valid = FALSE
          /\ result.accuracy = [verified |-> FALSE, verification_rate |-> Zero,
                                reason |-> "validation_error"]
          /\ result.context = [source_relevance |-> Zero, source_usage_rate |-> Zero,
                               valid |-> FALSE]
          /\ result.hallucination = [detected |-> TRUE, risk |-> One]
          /\ Len(result.warnings) = 1
          /\ IsFailure(result.warnings[1])

\* C1 witness: the accuracy check threw after the two other checks had
\* succeeded, on an instance whose threshold is 0
C1_Witness ==
    /\ pc = "done"
    /\ St(acc) = "err" /\ St(ctx) = "ok" /\ St(hal) = "ok"
    /\ config.enableContextValidation /\ config.enableHallucinationDetection
    /\ config.confidenceThreshold = Zero
    /\ result.valid = FALSE

\* C2: when the classifier answers skip_validation the call returns the
\* fixed short-circuit record carrying the classifier's type, and none of
\* the accuracy checker, context validator, hallucination detector, semantic
\* grader, lexical fallback or fusion engine was invoked.
C2_ShortCircuit ==
    (pc = "done" /\ Skipped) =>
        /\ result = [confidence |-> One, valid |-> TRUE,
                     accuracy |-> [verified |-> TRUE, verification_rate |-> One],
                     context |-> [source_relevance |-> One, source_usage_rate |-> One,
                                  valid |-> TRUE],
                     hallucination |-> [detected |-> FALSE, risk |-> Zero],
                     warnings |-> <<>>,
                     query_type |-> cls.res.type,
                     skip_validation |-> TRUE]
        /\ calls.accuracy = 0 /\ calls.context = 0 /\ calls.hallucination = 0
        /\ calls.judge = 0 /\ calls.lexical = 0 /\ calls.fusion = 0

\* C2 witness: a short-circuited call without sources on an instance with
\* every check enabled and the threshold 1
C2_Witness ==
    /\ pc = "done" /\ Skipped
    /\ input.sources = <<>>
    /\ config.enableAccuracyCheck /\ config.enableHallucinationDetection
    /\ config.enableContextValidation
    /\ config.confidenceThreshold = One

\* C3: on a call that went through the fusion, valid is true exactly if the
\* returned confidence is at least the configured threshold (0.7 when none
\* was configured, which is what the merged configuration then holds).
C3_ValidIffThreshold ==
    Fused => (result.valid <=> RLeq(config.confidenceThreshold, result.confidence))

\* C4: when the call of the semantic grader threw, validateContext resolved
\* to the lexical fallback on the same query, response and sources, and a
\* call whose other checks succeeded returns that context result and not
\* the fail-closed record.
C4_GraderFailureContained ==
    St(grader) = "err" =>
        /\ Len(input.sources) > 0
        /\ ctx = Resolved(wordMatchingValidation(input.query, input.response,
                                                input.sources))
        /\ calls.lexical = 1
        /\ (pc = "done" /\ St(acc) = "ok" /\ St(hal) = "ok"
              /\ acc.res # Null /\ hal.res # Null) =>
                 /\ result.context = ctx.res
                 /\ \A i \in 1..Len(result.warnings) : ~IsFailure(result.warnings[i])

\* C4 witness: a call returned after the grader threw, with the accuracy
\* and hallucination checks enabled and succeeded
C4_Witness ==
    /\ pc = "done" /\ St(grader) = "err"
    /\ config.enableAccuracyCheck /\ config.enableHallucinationDetection
    /\ Fused
    /\ result.context.source_relevance = One

\* C9: with zero sources validateContext resolves to
\* {source_relevance: 0, source_usage_rate: 0, valid: false}, whether or not
\* the semantic grader is enabled, and neither the grader nor the lexical
\* fallback was invoked.
C9_ZeroSources ==
    (pc \in {"fanout", "done"} /\ St(ctx) # "none"
       /\ config.enableContextValidation /\ Len(input.sources) = 0) =>
        /\ ctx = Resolved([source_relevance |-> Zero, source_usage_rate |-> Zero,
                           valid |-> FALSE])
        /\ grader = Null
        /\ calls.context = 1 /\ calls.judge = 0 /\ calls.lexical = 0

\* C9 witness: the context check of a call without sources has resolved on
\* an instance whose semantic grader is enabled
C9_Witness ==
    /\ pc = "fanout" /\ St(ctx) = "ok"
    /\ config.enableContextValidation /\ judge.useLLMJudge
    /\ Len(input.sources) = 0 /\ Len(input.query) > 0

\* accuracy check, hallucination detection and semantic grader off, the
\* other options at their defaults
AllOffDefaults ==
    /\ ~config.enableAccuracyCheck /\ ~config.enableHallucinationDetection
    /\ ~config.useLLMJudge /\ ~judge.useLLMJudge
    /\ config.enableQueryClassification /\ config.enableContextValidation
    /\ config.confidenceThreshold = Rat(7, 10)

\* C10 as stated: with all three off and the defaults, a call with no
\* sources returns confidence 0 and valid = false for any query and response.
C10_ScenarioA_Original ==
    (pc = "done" /\ AllOffDefaults /\ input.sources = <<>>) =>
        /\ result.confidence = Zero
        /\ result.valid = FALSE

\* C10 amended: the same, for a call the classifier does not short-circuit.
C10_ScenarioA ==
    (pc = "done" /\ AllOffDefaults /\ input.sources = <<>> /\ ~Skipped) =>
        /\ result.confidence = Zero
        /\ result.valid = FALSE

\* C10 witness: such a call went through the fusion
C10_Witness ==
    /\ Fused /\ AllOffDefaults /\ input.sources = <<>>
    /\ St(cls) = "ok" /\ ~cls.res.skip_validation
    /\ Len(input.query) > 0

\* ================================================== properties: construction

CredentialToggles == {"useLLMJudge", "enableAccuracyCheck", "enableHallucinationDetection"}

\* the caller asked for the toggle
RequestedOn(toggle) == toggle \in DOMAIN requested /\ requested[toggle]

\* the credential of the provider family llmProvider names
FamilyKey == IF requested.llmProvider = "openai" THEN "openaiApiKey" ELSE "claudeApiKey"

\* the toggle is off in the constructed instance
EffectiveOff(toggle) ==
    /\ ~config[toggle]
    /\ toggle = "useLLMJudge" => ~judge.useLLMJudge /\ judge.llmJudge = Null

\* C5 as stated: construction never fails, and a credential-requiring toggle
\* requested on without a credential of the family named by llmProvider is
\* off in the effective configuration.
C5_ForcedOff_Original ==
    pc # "new" =>
        /\ pc = "idle"
        /\ \A toggle \in CredentialToggles :
              (RequestedOn(toggle) /\ ~HasKey(requested, FamilyKey)) => EffectiveOff(toggle)

\* C5 amended: construction never fails, and a credential-requiring toggle
\* requested on with no credential at all (neither OpenAI nor Claude) is off
\* in the effective configuration.
C5_ForcedOff ==
    pc # "new" =>
        /\ pc = "idle"
        /\ \A toggle \in CredentialToggles :
              (RequestedOn(toggle) /\ NoApiKey(requested)) => EffectiveOff(toggle)

\* C5 witness: all three toggles were requested on without any credential
C5_Witness ==
    /\ pc = "idle"
    /\ NoApiKey(requested)
    /\ \A toggle \in CredentialToggles : RequestedOn(toggle) /\ EffectiveOff(toggle)

\* ============================================ properties: calculateConfidence

\* the table of the claim, in hundredths: accuracy, context, hallucination,
\* source quality
TableWeights(accuracyEnabled, hallucinationEnabled) ==
    IF ~accuracyEnabled /\ ~hallucinationEnabled THEN <<0, 60, 0, 40>>
    ELSE IF ~accuracyEnabled /\ hallucinationEnabled THEN <<0, 35, 45, 20>>
    ELSE IF accuracyEnabled /\ ~hallucinationEnabled THEN <<50, 30, 0, 20>>
    ELSE <<35, 25, 30, 10>>

\* verification_rate*w_acc + source_relevance*w_ctx + (1 - risk)*w_hal
\* + source_quality*w_sq with the weights of the table, in lowest terms
TableSum(a) ==
    LET w == TableWeights(AccuracyEnabled(a), HallucinationEnabled(a))
        vr == a.accuracyResult.verification_rate
        rel == a.contextResult.source_relevance
        risk == a.hallucinationResult.risk
        sq == calculateSourceQuality(a.sources)
        d == 100 * vr.d * rel.d * risk.d * sq.d
        n == w[1] * vr.n * rel.d * risk.d * sq.d
             + w[2] * rel.n * vr.d * risk.d * sq.d
             + w[3] * (risk.d - risk.n) * vr.d * rel.d * sq.d
             + w[4] * sq.n * vr.d * rel.d * risk.d
    IN  Rat(n, d)

\* score is x rounded to 2 decimals: a multiple of 0.01 at most 0.005 away
IsRounded2(score, x) ==
    /\ IsHundredth(score)
    /\ RLeq(Rat(-1, 200), RSub(score, x))
    /\ RLeq(RSub(score, x), Rat(1, 200))

\* the part of C6 the two statements share: the weights are those of the
\* table, sum to 1, are 0 for a disabled check, and the score is the
\* weighted sum rounded to 2 decimals
C6_TableAndSum ==
    LET a == fin[1]
        w == TableWeights(AccuracyEnabled(a), HallucinationEnabled(a))
        used == SelectWeights(AccuracyEnabled(a), HallucinationEnabled(a))
    IN  /\ used = [accuracy |-> Rat(w[1], 100), context |-> Rat(w[2], 100),
                   hallucination |-> Rat(w[3], 100), sourceQuality |-> Rat(w[4], 100)]
        /\ RAdd(RAdd(used.accuracy, used.context),
                RAdd(used.hallucination, used.sourceQuality)) = One
        /\ ~AccuracyEnabled(a) => used.accuracy = Zero
        /\ ~HallucinationEnabled(a) => used.hallucination = Zero
        /\ IsRounded2(fout[1].confidence_score, TableSum(a))
        /\ a = ScenarioB => fout[1].confidence_score = Rat(94, 100)

\* C6 as stated: the table, the rounded weighted sum, and scenario C
\* (0.2, 0.2, risk 0.8, quality 0.5, all enabled) giving 0.22.
C6_Weights_Original ==
    pc = "fused" =>
        /\ C6_TableAndSum
        /\ fin[1] = ScenarioC => fout[1].confidence_score = Rat(22, 100)

\* C6 amended: the table, the rounded weighted sum, and scenario C giving
\* 0.23 (0.07 + 0.05 + 0.06 + 0.05).
C6_Weights ==
    pc = "fused" =>
        /\ C6_TableAndSum
        /\ fin[1] = ScenarioC => fout[1].confidence_score = Rat(23, 100)

\* C6 witness: scenario C has been computed
C6_Witness ==
    /\ pc = "fused"
    /\ fin[1] = ScenarioC
    /\ fout[1].breakdown.source_quality = Rat(5, 10)

\* C7: two calls that agree on the context result, the sources and the
\* flags, and on the result of every enabled check, have the same
\* confidence_score and level: the result of a disabled check does not
\* interfere.
C7_NonInterference ==
    pc = "fused" =>
        LET a == fin[1]
            b == fin[2]
        IN  (/\ ~AccuracyEnabled(a) \/ a.accuracyResult = b.accuracyResult
             /\ ~HallucinationEnabled(a) \/ a.hallucinationResult = b.hallucinationResult)
            => /\ fout[1].confidence_score = fout[2].confidence_score
               /\ fout[1].level = fout[2].level

\* C7 witness: both checks disabled, and the two calls differ in the
\* accuracy result and in the hallucination result
C7_Witness ==
    /\ pc = "fused"
    /\ ~AccuracyEnabled(fin[1]) /\ ~HallucinationEnabled(fin[1])
    /\ fin[1].accuracyResult.verification_rate = Zero
    /\ fin[2].accuracyResult.verification_rate = One
    /\ fin[1].hallucinationResult.risk = One
    /\ fin[2].hallucinationResult.risk = Zero
    /\ fin[1].contextResult = fin[2].contextResult
    /\ fin[1].sources = fin[2].sources /\ fin[1].sources # <<>>

UnitHundredth(x) == InUnit(x) /\ IsHundredth(x)

LevelOfReturned(score) ==
    IF RLeq(Rat(8, 10), score) THEN "high"
    ELSE IF RLeq(Rat(5, 10), score) THEN "medium"
    ELSE "low"

\* C11: in every ConfidenceResult the level is the one the returned
\* confidence_score stands for: high iff confidence_score >= 0.8, medium iff
\* 0.5 <= confidence_score < 0.8, low iff confidence_score < 0.5.
C11_LevelOfReturnedScore ==
    pc = "fused" =>
        \A i \in 1..2 : fout[i].level = LevelOfReturned(fout[i].confidence_score)

\* the call of C11's failing input has been computed: every check enabled,
\* verification_rate 0.5, source_relevance 1, risk 0, one untitled source of
\* 101 characters; the sum 0.795 is returned as 0.8 with the level medium
C11_Reached ==
    /\ pc = "fused"
    /\ fin[1] = Args(Half, One, Zero, <<MediumSource>>,
                     [accuracy |-> TRUE, hallucination |-> TRUE])
    /\ fout[1].confidence_score = Rat(8, 10)
    /\ fout[1].level = "medium"

\* ====================================================== properties: warnings

\* the warnings the claim's five conditions ask for
WarningsDue ==
    {w \in {"No sources provided - high hallucination risk",
            "Low accuracy verification rate",
            "Low context relevance",
            "High hallucination risk detected",
            "Hallucination detected in response"} :
        \/ w = "No sources provided - high hallucination risk"
           /\ Len(input.sources) = 0
        \/ w = "Low accuracy verification rate"
           /\ RLt(result.accuracy.verification_rate, Rat(1, 2))
        \/ w = "Low context relevance"
           /\ RLt(result.context.source_relevance, Rat(3, 10))
        \/ w = "High hallucination risk detected"
           /\ RLt(Rat(1, 2), result.hallucination.risk)
        \/ w = "Hallucination detected in response"
           /\ result.hallucination.detected}

FanOutBegun == pc \in {"fanout", "done"} /\ St(acc) # "none"

\* the call ended with the fail-closed record
FailedClosed ==
    /\ pc = "done"
    /\ Len(result.warnings) = 1 /\ IsFailure(result.warnings[1])

\* the task of an enabled check threw, or resolved to null
EnabledCheckFailed(enabled, task) ==
    enabled /\ (St(task) = "err" \/ (St(task) = "ok" /\ task.res = Null))

\* a disabled check was not invoked and its slot holds the neutral default;
\* a fail-closed result is due to the classifier or to an enabled check
C13_DisabledSlots ==
    /\ FanOutBegun =>
          /\ ~config.enableAccuracyCheck =>
                /\ calls.accuracy = 0
                /\ acc = [st |-> "ok",
                          res |-> [verified |-> TRUE, verification_rate |-> One]]
          /\ ~config.enableContextValidation =>
                /\ calls.context = 0 /\ calls.judge = 0 /\ calls.lexical = 0
                /\ grader = Null
                /\ ctx = [st |-> "ok",
                          res |-> [source_relevance |-> One, source_usage_rate |-> One,
                                   valid |-> TRUE]]
          /\ ~config.enableHallucinationDetection =>
                /\ calls.hallucination = 0
                /\ hal = [st |-> "ok", res |-> [detected |-> FALSE, risk |-> Zero]]
    /\ FailedClosed =>
          \/ St(cls) = "err"
          \/ EnabledCheckFailed(config.enableAccuracyCheck, acc)
          \/ EnabledCheckFailed(config.enableContextValidation, ctx)
          \/ EnabledCheckFailed(config.enableHallucinationDetection, hal)

\* the result carries the neutral default of every disabled check
DefaultsReturned ==
    /\ ~config.enableAccuracyCheck =>
          result.accuracy = [verified |-> TRUE, verification_rate |-> One]
    /\ ~config.enableContextValidation =>
          result.context = [source_relevance |-> One, source_usage_rate |-> One,
                            valid |-> TRUE]
    /\ ~config.enableHallucinationDetection =>
          result.hallucination = [detected |-> FALSE, risk |-> Zero]

\* C13 as stated: a disabled check is never invoked, its slot holds the
\* neutral default, the defaults are returned unchanged in the
\* ValidationResult of the call, and a disabled check is never the cause of
\* a fail-closed result.
C13_Disabled_Original ==
    /\ C13_DisabledSlots
    /\ (pc = "done" /\ FanOutBegun) => DefaultsReturned

\* C13 amended: the same, the defaults being returned unchanged by every
\* call that went through the fusion and the decision (the fail-closed
\* record, returned when another step threw, carries its own fixed values).
C13_Disabled ==
    /\ C13_DisabledSlots
    /\ Fused => DefaultsReturned

\* C13 witness: a call with sources went through the fusion with the
\* accuracy and context checks disabled and the hallucination detector
\* enabled, and returned the two defaults
C13_Witness ==
    /\ Fused
    /\ ~config.enableAccuracyCheck /\ ~config.enableContextValidation
    /\ config.enableHallucinationDetection
    /\ Len(input.sources) > 0
    /\ result.hallucination.risk = One
    /\ result.accuracy = [verified |-> TRUE, verification_rate |-> One]
    /\ result.context.source_relevance = One

\* ========================================================== properties: join

\* the arguments the fusion of the call is given
FusionArgs ==
    [accuracyResult |-> acc.res, contextResult |-> ctx.res,
     hallucinationResult |-> hal.res, sources |-> input.sources,
     enabledChecks |-> [accuracy |-> config.enableAccuracyCheck,
                        hallucination |-> config.enableHallucinationDetection]]

\* C14: the fusion is called only after all three tasks have a result; a
\* call whose three tasks succeeded returns, in whatever order they
\* finished, the result of each task in its own slot, the weighted sum of
\* these results rounded to 2 decimals and the decision taken on it; and a
\* call one of whose tasks threw returns valid = false and confidence 0,
\* whichever tasks had finished by then.
C14_Join ==
    /\ (FanOutBegun /\ calls.fusion > 0) =>
          St(acc) = "ok" /\ St(ctx) = "ok" /\ St(hal) = "ok"
    /\ Fused =>
          /\ result.accuracy = acc.res
          /\ result.context = ctx.res
          /\ result.hallucination = hal.res
          /\ IsRounded2(result.confidence, TableSum(FusionArgs))
          /\ result.valid <=> RLeq(ThresholdUsed(config), result.confidence)
    /\ (pc = "done" /\ FanOutBegun
          /\ (St(acc) = "err" \/ St(ctx) = "err" \/ St(hal) = "err")) =>
          /\ result.valid = FALSE
          /\ result.confidence = Zero
          /\ calls.fusion = 0

\* C14 witness: with all three checks and the semantic grader enabled, the
\* hallucination task threw and the call returned while the context task
\* had finished and the accuracy task had not
C14_Witness ==
    /\ pc = "done"
    /\ St(hal) = "err" /\ St(ctx) = "ok" /\ acc = Pending
    /\ St(grader) = "ok"
    /\ result.valid = FALSE

\* ==================================================== properties: no retries

\* C15: within one call the classifier, the accuracy checker, the context
\* validator, the hallucination detector and the grader's provider are each
\* invoked at most once, also when the invocation threw; a grader call that
\* threw is followed by one lexical computation and no second grader call;
\* and a call whose accuracy or hallucination check threw returns the
\* fail-closed record without any further invocation (no fusion either).
C15_NoRetries ==
    pc \in {"classify", "fanout", "done"} =>
        /\ \A k \in DOMAIN calls : calls[k] <= 1
        /\ St(cls) # "none" => calls.classifier = 1
        /\ St(cls) = "err" =>
              calls = [classifier |-> 1, accuracy |-> 0, context |-> 0,
                       hallucination |-> 0, judge |-> 0, lexical |-> 0, fusion |-> 0]
        /\ St(acc) \in {"pending", "err"} => calls.accuracy = 1
        /\ St(hal) \in {"pending", "err"} => calls.hallucination = 1
        /\ St(grader) # "none" => calls.judge = 1 /\ calls.context = 1
        /\ St(grader) = "err" => calls.lexical = 1
        /\ St(grader) \in {"pending", "ok"} => calls.lexical = 0
        /\ (pc = "done" /\ (St(acc) = "err" \/ St(hal) = "err")) =>
              /\ FailedClosed
              /\ calls.fusion = 0

\* C15 witness: in one call the grader threw and the lexical fallback ran,
\* then the accuracy check threw and the call returned; each collaborator
\* was invoked once and the fusion not at all
C15_Witness ==
    /\ pc = "done"
    /\ St(grader) = "err" /\ St(acc) = "err"
    /\ calls = [classifier |-> 1, accuracy |-> 1, context |-> 1,
                hallucination |-> 1, judge |-> 1, lexical |-> 1, fusion |-> 0]

\* ================================================= properties: reuse

\* the instance is as the constructor leaves it, and no call is in progress
Fresh ==
    /\ \E cfg \in ValidatorConfigs :
          AIValidatorConstructor(cfg) = [config |-> config, contextValidator |-> judge]
    /\ input = Null /\ cls = Null /\ grader = Null
    /\ acc = Null /\ ctx = Null /\ hal = Null
    /\ result = Null /\ calls = Null

Runs(s) ==
    {run \in (1..Len(s)) \X (1..Len(s)) :
        /\ run[1] <= run[2]
        /\ \A k \in run[1]..run[2] : ~IsSpace(s[k])
        /\ run[1] = 1 \/ IsSpace(s[run[1] - 1])
        /\ run[2] = Len(s) \/ IsSpace(s[run[2] + 1])}

\* the tokens of more than n characters
RunsLongerThan(s, n) == {run \in Runs(s) : run[2] - run[1] + 1 > n}

TokenAt(s, run) == SubSeq(s, run[1], run[2])

\* the texts of the tokens of more than n characters
TokenTexts(s, n) == {TokenAt(s, run) : run \in RunsLongerThan(s, n)}

\* S: the normalized tokens of length > 3 of all the sources
SourceTokenTexts(sources) ==
    UNION {TokenTexts(Clean(sources[i].content), 3) : i \in 1..Len(sources)}

\* the ContextResult the claim describes
LexicalResultDue(query, response, sources) ==
    LET r == Clean(response)
        q == Clean(query)
        R == RunsLongerThan(r, 3)
        Q == RunsLongerThan(q, 2)
        S == SourceTokenTexts(sources)
        relevance ==
            IF R = {} THEN Rat(1, 2)
            ELSE Rat(Cardinality({run \in R : TokenAt(r, run) \in S}), Cardinality(R))
        usage ==
            IF Q = {} THEN Rat(1, 2)
            ELSE Rat(Cardinality({run \in Q : TokenAt(q, run) \in TokenTexts(r, 3)}),
                     Cardinality(Q))
    IN  [source_relevance |-> relevance,
         source_usage_rate |-> usage,
         valid |-> RLt(Rat(3, 10), relevance)]

\* C17: for at least one source, wordMatchingValidation returns
\* source_relevance = |{r in R : r in S}| / |R| (0.5 when R is empty),
\* source_usage_rate = |{q in Q : q in R}| / |Q| (0.5 when Q is empty) and
\* valid = (source_relevance > 0.3), duplicates counted; both rates lie in
\* [0, 1] and the computation does not throw.
C17_Lexical ==
    pc = "matched" =>
        /\ ~IsThrown(fout)
        /\ fout = LexicalResultDue(fin.query, fin.response, fin.sources)
        /\ InUnit(fout.source_relevance)
        /\ InUnit(fout.source_usage_rate)

\* C17 witness: the response "data data graph" against the one source
\* "Flow graph" and the query "a flow map": one of the three response tokens
\* is a source token, and neither of the two query tokens is a response token
C17_Witness ==
    /\ pc = "matched"
    /\ fin.response = <<"d","a","t","a"," ","d","a","t","a"," ","g","r","a","p","h">>
    /\ fin.query = <<"a"," ","f","l","o","w"," ","m","a","p">>
    /\ fin.sources = <<LongSource>>
    /\ fout = [source_relevance |-> Rat(1, 3), source_usage_rate |-> Zero,
               valid |-> TRUE]

\* ================================================ properties: semantic grader

Opens(raw) == {i \in 1..Len(raw) : raw[i].k = "open"}
Closes(raw) == {j \in 1..Len(raw) : raw[j].k = "close"}

\* the output has no brace-delimited block: no "{" with a "}" after it
NoBlock(raw) == ~\E i \in Opens(raw), j \in Closes(raw) : i < j

\* the output has one "{" and one "}" after it, and no other brace
OneBlock(raw) ==
    /\ Cardinality(Opens(raw)) = 1 /\ Cardinality(Closes(raw)) = 1
    /\ ~NoBlock(raw)

\* what stands between the braces of the one block
BlockBody(raw) ==
    LET i == CHOOSE i \in Opens(raw) : TRUE
        j == CHOOSE j \in Closes(raw) : TRUE
    IN  SubSeq(raw, i + 1, j - 1)

\* the body is structured data: no member, or well-formed members
WellFormedBody(body) == body = <<>> \/ (Len(body) = 1 /\ body[1].k = "members")

MembersOfBody(body) == IF body = <<>> THEN <<>> ELSE body[1].v

\* a member clamped into [0, 1], non-numeric or missing taken as 0
ClampedOrZero(m, name) ==
    IF name \notin DOMAIN m THEN Zero
    ELSE IF m[name].t # "number" THEN Zero
    ELSE IF RLt(m[name].v, Zero) THEN Zero
    ELSE IF RLt(One, m[name].v) THEN One
    ELSE m[name].v

\* the member is exactly the boolean true
ExactlyTrue(m, name) ==
    name \in DOMAIN m /\ m[name].t = "boolean" /\ m[name].b

\* C18: with the grader active, a provider output without a brace-delimited
\* block or with malformed data in it makes validateContext resolve, without
\* the lexical fallback, to {valid: false, source_relevance: 0.5,
\* source_usage_rate: 0.5}; a well-formed verdict gives the two rates
\* clamped into [0, 1], non-numeric or missing ones being 0, and valid only
\* for the boolean true; the lexical fallback runs exactly when the provider
\* call threw.
C18_GraderParse ==
    pc = "judged" =>
        /\ fout.task.st = "ok"
        /\ fout.lexical = 1 <=> IsThrown(fin.provider)
        /\ IsThrown(fin.provider) =>
              fout.task.res = wordMatchingValidation(fin.in.query, fin.in.response,
                                                     fin.in.sources)
        /\ ~IsThrown(fin.provider) =>
              LET raw == fin.provider.content
              IN  /\ (NoBlock(raw) \/ (OneBlock(raw) /\ ~WellFormedBody(BlockBody(raw)))) =>
                        fout.task.res = [valid |-> FALSE, source_relevance |-> Rat(1, 2),
                                         source_usage_rate |-> Rat(1, 2)]
                  /\ (OneBlock(raw) /\ WellFormedBody(BlockBody(raw))) =>
                        LET m == MembersOfBody(BlockBody(raw))
                        IN  fout.task.res =
                              [valid |-> ExactlyTrue(m, "valid"),
                               source_relevance |-> ClampedOrZero(m, "source_relevance"),
                               source_usage_rate |-> ClampedOrZero(m, "source_usage_rate")]

\* the call of C18's failing input has been made: the provider answered a
\* verdict whose source_relevance is the boolean true, and the context
\* result has the relevance 1
C18_Reached ==
    /\ pc = "judged"
    /\ ~IsThrown(fin.provider)
    /\ fin.provider.content =
          <<Piece("open"),
            Members(Member("valid", JsBoolean(TRUE))
                    @@ Member("source_relevance", JsBoolean(TRUE))
                    @@ Member("source_usage_rate", JsNumber(Half))),
            Piece("close")>>
    /\ fout.task.res.source_relevance = One

\* the position of the first "{" of the output
FirstOpen(raw) == CHOOSE i \in Opens(raw) : \A o \in Opens(raw) : i <= o

\* the output is commentary, then a well-formed verdict block, then further
\* text: its first "{" opens a block of well-formed members
VerdictFirst(raw) ==
    /\ Opens(raw) # {}
    /\ FirstOpen(raw) + 2 <= Len(raw)
    /\ raw[FirstOpen(raw) + 1].k = "members"
    /\ raw[FirstOpen(raw) + 2].k = "close"
    /\ \A j \in Closes(raw) : FirstOpen(raw) < j

\* C19: for an output made of commentary, a well-formed verdict block and
\* any further text, braces included, the ContextResult is the one the
\* first block alone gives.
C19_FirstBlock ==
    (pc = "judged" /\ ~IsThrown(fin.provider)) =>
        LET raw == fin.provider.content
        IN  VerdictFirst(raw) =>
              fout.task.res =
                  parseValidationResult(SubSeq(raw, FirstOpen(raw), FirstOpen(raw) + 2))

\* the call of C19's failing input has been made: a verdict with valid =
\* true and the relevance 0.9, followed by text that has braces, gave the
\* defaults for unparseable output
C19_Reached ==
    /\ pc = "judged"
    /\ ~IsThrown(fin.provider)
    /\ fin.provider.content =
          <<Piece("text"), Piece("open"),
            Members(Member("valid", JsBoolean(TRUE))
                    @@ Member("source_relevance", JsNumber(Rat(9, 10)))
                    @@ Member("source_usage_rate", JsNumber(Half))),
            Piece("close"),
            Piece("text"), Piece("open"), Piece("text"), Piece("close"), Piece("text")>>
    /\ fout.task.res = [valid |-> FALSE, source_relevance |-> Half,
                        source_usage_rate |-> Half]

\* ================================================ properties: source quality

\* the quality of one source as the claim gives it, in tenths
TenthsDue(source) ==
    LET tenths == 5 + (IF ContentLength(source) > 100 THEN 2 ELSE 0)
                    + (IF ContentLength(source) > 500 THEN 2 ELSE 0)
                    + (IF "title" \in DOMAIN source /\ source.title # <<>>
                       THEN 1 ELSE 0)
    IN  IF tenths > 10 THEN 10 ELSE tenths

RECURSIVE SumTenthsDue(_)
SumTenthsDue(sources) ==
    IF sources = <<>> THEN 0
    ELSE TenthsDue(Head(sources)) + SumTenthsDue(Tail(sources))

\* C20: the source quality is 0 for no source and otherwise the mean of
\* the per-source values 0.5 (+0.2 over 100 characters, +0.2 over 500, +0.1
\* with a non-empty title, at most 1.0); for a non-empty list it lies in
\* [0.5, 1.0]; and one titled source of 600 characters scores exactly 1.0.
C20_SourceQuality ==
    pc = "scored" =>
        /\ Len(fin) = 0 => fout.score = Zero /\ fout.off = 0
        /\ Len(fin) > 0 =>
              /\ fout.score = Rat(SumTenthsDue(fin), 10 * Len(fin))
              /\ RLeq(Rat(1, 2), fout.score) /\ RLeq(fout.score, One)
              /\ fout.score = Rat(1, 2) => fout.off >= 0
              /\ fout.score = One => fout.off <= 0
        /\ (Len(fin) = 1 /\ ContentLength(fin[1]) = 600
              /\ "title" \in DOMAIN fin[1] /\ fin[1].title # <<>>) =>
              fout.score = One /\ fout.off = 0

\* the call of C20's failing input has been made: one titled source of 600
\* characters, whose score is the double just below 1
C20_Reached ==
    /\ pc = "scored"
    /\ fin = << [content |-> DataFlow, pad |-> 590, title |-> <<"T">>] >>
    /\ fout = [score |-> One, off |-> -1]

\* ========================================= properties: calls without sources

\* the call returned the fail-closed record
CallFailed == Len(result.warnings) = 1 /\ IsFailure(result.warnings[1])

NoSourcesWarning == <<"No sources provided - high hallucination risk">>

\* C21: with context validation enabled and a threshold of at least 0.7
\* (the default included), a call with zero sources that the classifier
\* did not short-circuit never returns valid = true, whatever the accuracy
\* and hallucination toggles and the collaborators' results are; its
\* confidence is at most 0.65, and unless the call failed its warnings
\* include 'No sources provided - high hallucination risk'.
C21_NoSourcesNeverValid ==
    (pc = "done" /\ ~Skipped
       /\ config.enableContextValidation
       /\ RLeq(Rat(7, 10), config.confidenceThreshold)
       /\ Len(input.sources) = 0) =>
        /\ ~raised
        /\ result.valid = FALSE
        /\ RLeq(result.confidence, Rat(65, 100))
        /\ ~CallFailed =>
              \E i \in 1..Len(result.warnings) : result.warnings[i] = NoSourcesWarning

\* C21 witness: a call without sources on an instance with every check
\* enabled and the default threshold, whose accuracy rate is 1 and whose
\* risk is 0, returned the confidence 0.65, the largest there is, and
\* valid = false
C21_Witness ==
    /\ Fused /\ ~Skipped
    /\ config.enableContextValidation
    /\ config.enableAccuracyCheck /\ config.enableHallucinationDetection
    /\ config.confidenceThreshold = Rat(7, 10)
    /\ Len(input.sources) = 0
    /\ result.accuracy.verification_rate = One
    /\ result.hallucination.risk = Zero
    /\ result.confidence = Rat(65, 100)
    /\ result.valid = FALSE
    /\ result.warnings = << NoSourcesWarning, <<"Low context relevance">> >>

====
